---- MODULE Spec2Model ----
(***************************************************************************)
(* Model of shipping.py: XLSX export of the CSV ledger, the 7-day zip,     *)
(* the weekly e-mail and the git push.                                     *)
(*                                                                         *)
(* Strings are sequences of tokens.  A token is a separator ("/", "\\"),   *)
(* a drive ("C:"), a blank (" "), a comma (",") or a run of other          *)
(* characters that the code never looks inside ("news.mn", "f.png").       *)
(* The string operations of the code (rstrip, lstrip, strip, split,        *)
(* replace, relpath, basename, dirname) are computed on these sequences.   *)
(***************************************************************************)
EXTENDS Integers, Sequences, FiniteSets, TLC

VARIABLES
    op,         \* which function of shipping.py is being called
    pc,         \* position of the call: "start", a step name, "done", "raised"
    platform,   \* "posix" or "nt": which os.path the interpreter uses
    env,        \* os.environ: name -> [set, val]
    args,       \* the arguments of the call and the files they name
    out         \* what the call has produced so far

vars == <<op, pc, platform, env, args, out>>

----------------------------------------------------------------------------
(* Bounds of the model.                                                    *)

MaxRows == 2        \* data rows in a ledger
MaxAttach == 2      \* length of send_email's attachment list
MaxDays == 2        \* day folders under one site

----------------------------------------------------------------------------
(* Generic sequence helpers.                                               *)

Last(s) == s[Len(s)]

Front(s) == SubSeq(s, 1, Len(s) - 1)

RECURSIVE SeqsUpTo(_, _)
SeqsUpTo(S, n) ==
    IF n = 0 THEN {<<>>}
    ELSE LET shorter == SeqsUpTo(S, n - 1)
         IN  shorter \cup {Append(s, x) : s \in {t \in shorter : Len(t) = n - 1}, x \in S}

Range(s) == {s[i] : i \in 1..Len(s)}

\* str.startswith / the sub-string test at a position
MatchAt(s, i, pat) ==
    /\ i + Len(pat) - 1 <= Len(s)
    /\ SubSeq(s, i, i + Len(pat) - 1) = pat

\* "pat in s"
Contains(s, pat) == \E i \in 1..Len(s) : MatchAt(s, i, pat)

\* index of the first occurrence of pat in s at or after i, 0 when there is none
RECURSIVE FindFrom(_, _, _)
FindFrom(s, i, pat) ==
    IF i + Len(pat) - 1 > Len(s) THEN 0
    ELSE IF MatchAt(s, i, pat) THEN i
    ELSE FindFrom(s, i + 1, pat)

\* str.split(pat): the pieces between the occurrences of pat
RECURSIVE StrSplit(_, _)
StrSplit(s, pat) ==
    LET i == FindFrom(s, 1, pat)
    IN  IF i = 0 THEN <<s>>
        ELSE <<SubSeq(s, 1, i - 1)>> \o StrSplit(SubSeq(s, i + Len(pat), Len(s)), pat)

\* str.replace(old, new)
RECURSIVE StrReplace(_, _, _)
StrReplace(s, old, new) ==
    LET i == FindFrom(s, 1, old)
    IN  IF i = 0 THEN s
        ELSE SubSeq(s, 1, i - 1) \o new
             \o StrReplace(SubSeq(s, i + Len(old), Len(s)), old, new)

\* str.rstrip(chars), str.lstrip(chars), str.strip()
RECURSIVE RStrip(_, _)
RStrip(s, chars) ==
    IF s # <<>> /\ Last(s) \in chars THEN RStrip(Front(s), chars) ELSE s

RECURSIVE LStrip(_, _)
LStrip(s, chars) ==
    IF s # <<>> /\ Head(s) \in chars THEN LStrip(Tail(s), chars) ELSE s

Strip(s) == LStrip(RStrip(s, {" "}), {" "})

\* sep.join(parts), each part a token
RECURSIVE JoinTokens(_, _)
JoinTokens(parts, sep) ==
    IF parts = <<>> THEN <<>>
    ELSE IF Len(parts) = 1 THEN <<parts[1]>>
    ELSE <<parts[1], sep>> \o JoinTokens(Tail(parts), sep)

----------------------------------------------------------------------------
(* os.environ and os.getenv.                                               *)

Unset == [set |-> FALSE, val |-> <<>>]

Val(s) == [set |-> TRUE, val |-> s]

EnvNames ==
    {"OUTPUT_ROOT", "PUBLIC_BASE_URL", "RAW_BASE_URL",
     "SMTP_HOST", "SMTP_PORT", "SMTP_USER", "SMTP_PASS", "MAIL_FROM", "MAIL_TO",
     "GIT_REMOTE_NAME", "GIT_BRANCH"}

NoEnv == [n \in EnvNames |-> Unset]

\* os.getenv(name, default)
getenv(e, name, default) == IF e[name].set THEN e[name].val ELSE default

----------------------------------------------------------------------------
(* os.path on token sequences.                                             *)

Drives == {"C:", "D:"}

Sep(plat) == IF plat = "nt" THEN "\\" ELSE "/"

Seps(plat) == IF plat = "nt" THEN {"\\", "/"} ELSE {"/"}

\* os.path.splitdrive: <<drive, rest>>
splitdrive(plat, p) ==
    IF plat = "nt" /\ p # <<>> /\ Head(p) \in Drives
    THEN <<<<Head(p)>>, Tail(p)>>
    ELSE <<<<>>, p>>

\* the non-empty pieces between separators
Components(plat, p) == SelectSeq(p, LAMBDA t : t \notin Seps(plat))

\* normpath's treatment of ".." in a rooted path: it removes the piece before
\* it, and at the root it is dropped
RECURSIVE NormComps(_, _)
NormComps(acc, comps) ==
    IF comps = <<>> THEN acc
    ELSE IF Head(comps) = ".."
         THEN NormComps(IF acc = <<>> THEN acc ELSE Front(acc), Tail(comps))
         ELSE NormComps(Append(acc, Head(comps)), Tail(comps))

\* os.path.isabs
isabs(plat, p) ==
    LET rest == splitdrive(plat, p)[2]
    IN  rest # <<>> /\ Head(rest) \in Seps(plat)

\* os.path.abspath of a rooted path: drive, root and the normalised pieces
abspath(plat, p) ==
    LET sd == splitdrive(plat, p)
        comps == NormComps(<<>>, Components(plat, sd[2]))
    IN  sd[1] \o <<Sep(plat)>> \o JoinTokens(comps, Sep(plat))

\* length of the common prefix of two component lists
RECURSIVE CommonLen(_, _)
CommonLen(a, b) ==
    IF a = <<>> \/ b = <<>> \/ Head(a) # Head(b) THEN 0
    ELSE 1 + CommonLen(Tail(a), Tail(b))

\* os.path.relpath raises ValueError for an empty path and, on nt, for a
\* path on another drive than start
relpath_raises(plat, p, start) ==
    \/ p = <<>>
    \/ plat = "nt" /\ splitdrive(plat, abspath(plat, p))[1]
                       # splitdrive(plat, abspath(plat, start))[1]

\* os.path.relpath(p, start) when it does not raise
relpath(plat, p, start) ==
    LET plist == NormComps(<<>>, Components(plat, splitdrive(plat, p)[2]))
        slist == NormComps(<<>>, Components(plat, splitdrive(plat, start)[2]))
        i == CommonLen(slist, plist)
        rel == [k \in 1..(Len(slist) - i) |-> ".."] \o SubSeq(plist, i + 1, Len(plist))
    IN  IF rel = <<>> THEN <<".">> ELSE JoinTokens(rel, Sep(plat))

\* index of the last separator of p, 0 when there is none
RECURSIVE LastSepIdx(_, _, _)
LastSepIdx(plat, p, i) ==
    IF i = 0 THEN 0
    ELSE IF p[i] \in Seps(plat) THEN i
    ELSE LastSepIdx(plat, p, i - 1)

\* os.path.basename
basename(plat, p) ==
    LET rest == splitdrive(plat, p)[2]
        i == LastSepIdx(plat, rest, Len(rest))
    IN  SubSeq(rest, i + 1, Len(rest))

\* os.path.dirname: the head of split(), trailing separators removed unless
\* the head is only separators
dirname(plat, p) ==
    LET sd == splitdrive(plat, p)
        rest == sd[2]
        i == LastSepIdx(plat, rest, Len(rest))
        head == SubSeq(rest, 1, i)
        cut == RStrip(head, Seps(plat))
    IN  sd[1] \o (IF cut = <<>> THEN head ELSE cut)

----------------------------------------------------------------------------
(* build_xlsx_from_csv.                                                    *)

\* Path(__file__).resolve().parent: where shipping.py is installed
HereDir(plat) ==
    IF plat = "nt" THEN <<"C:", "\\", "app">> ELSE <<"/", "app">>

_guess_output_root(plat, e) ==
    LET env_root == Strip(getenv(e, "OUTPUT_ROOT", <<>>))
    IN  IF env_root # <<>> THEN abspath(plat, env_root)
        ELSE HereDir(plat) \o <<Sep(plat), "banner_screenshots">>

_to_rel(plat, path_str, output_root) ==
    IF relpath_raises(plat, path_str, output_root) THEN <<>>
    ELSE StrReplace(relpath(plat, path_str, output_root), <<"\\">>, <<"/">>)

_file_url(plat, local_path) ==
    <<"file:///">> \o StrReplace(abspath(plat, local_path), <<"\\">>, <<"/">>)

\* public_base: PUBLIC_BASE_URL without trailing slashes
PublicBase(e) == RStrip(getenv(e, "PUBLIC_BASE_URL", <<>>), {"/"})

\* raw_base: RAW_BASE_URL without trailing slashes, else derived from a
\* .../blob/<branch> PUBLIC_BASE_URL
RawBase(e) ==
    LET raw_base == RStrip(getenv(e, "RAW_BASE_URL", <<>>), {"/"})
        public_base == PublicBase(e)
        parts == StrSplit(public_base, <<"/", "blob", "/">>)
        after == StrReplace(parts[1], <<"https://github.com/">>,
                            <<"https://raw.githubusercontent.com/">>)
    IN  IF raw_base = <<>> /\ public_base # <<>>
           /\ Contains(public_base, <<"/", "blob", "/">>)
        THEN after \o <<"/">> \o parts[2]
        ELSE raw_base

clickable_cols == <<"example_path", "image_path">>

\* 1-based index of the first occurrence of name in names, 0 when absent
RECURSIVE IndexOf(_, _, _)
IndexOf(names, name, i) ==
    IF i > Len(names) THEN 0
    ELSE IF names[i] = name THEN i
    ELSE IndexOf(names, name, i + 1)

\* click_col_idx: the column of the first clickable name the header has,
\* 0 for None
ClickColIdx(fieldnames) ==
    IF IndexOf(fieldnames, clickable_cols[1], 1) # 0
    THEN IndexOf(fieldnames, clickable_cols[1], 1)
    ELSE IndexOf(fieldnames, clickable_cols[2], 1)

PlainCell(v) == [value |-> v, hyperlink |-> <<>>]

\* the text shown in the clickable cell of a row
DisplayText(plat, original_path, output_root) ==
    IF original_path = <<>> THEN original_path
    ELSE LET rel == _to_rel(plat, original_path, output_root)
         IN  IF rel # <<>> THEN rel ELSE basename(plat, original_path)

\* as Hyperlink, but PUBLIC_BASE_URL is preferred to the RAW base
HyperlinkPublicFirst(plat, original_path, output_root, raw_base, public_base) ==
    IF original_path = <<>> THEN <<>>
    ELSE LET rel == _to_rel(plat, original_path, output_root)
         IN  IF public_base # <<>> /\ rel # <<>>
             THEN RStrip(public_base, {"/"}) \o <<"/">> \o LStrip(rel, {"/"})
             ELSE IF raw_base # <<>> /\ rel # <<>>
             THEN RStrip(raw_base, {"/"}) \o <<"/">> \o LStrip(rel, {"/"})
             ELSE _file_url(plat, original_path)

\* the link attached to the clickable cell of a row, <<>> for none
Hyperlink(plat, original_path, output_root, raw_base, public_base) ==
    IF original_path = <<>> THEN <<>>
    ELSE LET rel == _to_rel(plat, original_path, output_root)
         IN  IF raw_base # <<>> /\ rel # <<>>
             THEN RStrip(raw_base, {"/"}) \o <<"/">> \o LStrip(rel, {"/"})
             ELSE IF public_base # <<>> /\ rel # <<>>
             THEN RStrip(public_base, {"/"}) \o <<"/">> \o LStrip(rel, {"/"})
             ELSE _file_url(plat, original_path)

\* one data row of the sheet: the raw values, the clickable cell rewritten
SheetRow(plat, e, fieldnames, row) ==
    LET idx == ClickColIdx(fieldnames)
        output_root == _guess_output_root(plat, e)
    IN  [k \in 1..Len(fieldnames) |->
            IF k = idx
            THEN [value |-> DisplayText(plat, row[k], output_root),
                  hyperlink |-> Hyperlink(plat, row[k], output_root,
                                          RawBase(e), PublicBase(e))]
            ELSE PlainCell(row[k])]

\* the sheet written for an existing ledger: the header row, then the rows
Sheet(plat, e, fieldnames, rows) ==
    <<[k \in 1..Len(fieldnames) |-> PlainCell(<<fieldnames[k]>>)]>>
    \o [r \in 1..Len(rows) |-> SheetRow(plat, e, fieldnames, rows[r])]

\* os.makedirs(os.path.dirname(path), exist_ok=True) raises FileNotFoundError
\* for the empty directory name
makedirs_raises(plat, path) == dirname(plat, path) = <<>>

build_xlsx_from_csv ==
    /\ op = "xlsx" /\ pc = "start"
    /\ IF makedirs_raises(platform, args.xlsx_path)
       THEN /\ pc' = "raised"
            /\ out' = out
       ELSE IF ~args.csv_exists
       THEN /\ pc' = "done"
            /\ out' = [out EXCEPT !.saved = TRUE, !.sheet = <<>>]
       ELSE /\ pc' = "done"
            /\ out' = [out EXCEPT !.saved = TRUE, !.read_env = TRUE,
                           !.sheet = Sheet(platform, env, args.fieldnames, args.rows)]
    /\ UNCHANGED <<op, platform, env, args>>

(* Inputs of build_xlsx_from_csv. *)

LedgerPaths(plat) ==
    IF plat = "nt"
    THEN {<<>>,
          <<"C:", "\\", "shots", "\\", "news.mn", "\\", "f.png">>,
          <<"C:", "\\", "tmp", "\\", "f.png">>,
          <<"D:", "\\", "tmp", "\\", "f.png">>}
    ELSE {<<>>,
          <<"/", "shots", "/", "news.mn", "/", "f.png">>,
          <<"/", "tmp", "/", "f.png">>,
          <<"/", "shots", "/", "..", "/", "tmp", "/", "f.png">>}

\* values of the path column that is not the first in a two-path header
SecondPaths(plat) ==
    IF plat = "nt"
    THEN {<<>>, <<"C:", "\\", "shots", "\\", "news.mn", "\\", "g.png">>}
    ELSE {<<>>, <<"/", "shots", "/", "news.mn", "/", "g.png">>}

OutputRoots(plat) ==
    {Unset, Val(<<" ">>),
     Val(IF plat = "nt" THEN <<"C:", "\\", "shots">> ELSE <<"/", "shots">>)}

RawUrls ==
    {Unset, Val(<<"/">>),
     Val(<<"https://raw.githubusercontent.com/", "u", "/", "r", "/", "main", "/">>)}

PublicUrls ==
    {Unset,
     Val(<<"https://github.com/", "u", "/", "r", "/", "blob", "/", "main">>),
     Val(<<"https://cdn.example/", "shots", "/">>)}

Headers ==
    {<<>>, <<"site">>, <<"site", "example_path">>, <<"image_path", "site">>,
     <<"site", "example_path", "image_path">>, <<"image_path", "example_path">>}

\* the values a column may hold in one row
ColumnValues(plat, fieldnames, k) ==
    IF fieldnames[k] \notin Range(clickable_cols) THEN {<<"news.mn">>}
    ELSE IF k = ClickColIdx(fieldnames) THEN LedgerPaths(plat)
    ELSE SecondPaths(plat)

RowsOf(plat, fieldnames) ==
    {row \in [1..Len(fieldnames) -> LedgerPaths(plat) \cup SecondPaths(plat)
                                       \cup {<<"news.mn">>}] :
        \A k \in 1..Len(fieldnames) : row[k] \in ColumnValues(plat, fieldnames, k)}

\* csv.DictReader yields no rows for a file without a header line
Ledgers(plat) ==
    UNION {{[fieldnames |-> h, rows |-> rs] :
                rs \in IF h = <<>> THEN {<<>>} ELSE SeqsUpTo(RowsOf(plat, h), MaxRows)} :
           h \in Headers}

XlsxPaths(plat) ==
    {<<"banners.xlsx">>, <<"out", Sep(plat), "banners.xlsx">>}

InitXlsx ==
    /\ op = "xlsx" /\ pc = "start"
    /\ platform \in {"posix", "nt"}
    /\ \E root \in OutputRoots(platform), raw \in RawUrls, pub \in PublicUrls :
          env = [NoEnv EXCEPT !["OUTPUT_ROOT"] = root,
                              !["RAW_BASE_URL"] = raw,
                              !["PUBLIC_BASE_URL"] = pub]
    /\ \E xp \in XlsxPaths(platform) :
          \/ args = [csv_exists |-> FALSE, fieldnames |-> <<>>, rows |-> <<>>,
                     xlsx_path |-> xp]
          \/ \E l \in Ledgers(platform) :
                args = [csv_exists |-> TRUE, fieldnames |-> l.fieldnames,
                        rows |-> l.rows, xlsx_path |-> xp]
    /\ out = [saved |-> FALSE, read_env |-> FALSE, sheet |-> <<>>]

NextXlsx == build_xlsx_from_csv

SpecXlsx == InitXlsx /\ [][NextXlsx]_vars

(* Claims about build_xlsx_from_csv. *)

XlsxWritten == op = "xlsx" /\ pc = "done" /\ args.csv_exists

\* the cell of data row r (1-based among the data rows) in column c
CellAt(r, c) == out.sheet[r + 1][c]

IsPrefix(a, b) == Len(a) <= Len(b) /\ SubSeq(b, 1, Len(a)) = a

\* the path p does not lie in the tree of root
OutsideRoot(plat, p, root) ==
    \/ splitdrive(plat, p)[1] # splitdrive(plat, root)[1]
    \/ ~IsPrefix(NormComps(<<>>, Components(plat, splitdrive(plat, root)[2])),
                 NormComps(<<>>, Components(plat, splitdrive(plat, p)[2])))

\* C1: after build_xlsx_from_csv no cell of a data row shows an absolute
\* path that the ledger holds in that row, whichever column it is in.
C1_NoAbsolutePathShown ==
    XlsxWritten =>
        \A r \in 1..Len(args.rows) : \A c, k \in 1..Len(args.fieldnames) :
            (args.fieldnames[k] \in Range(clickable_cols)
               /\ isabs(platform, args.rows[r][k]))
            => CellAt(r, c).value # args.rows[r][k]

\* the three link strategies, told apart by what the link starts with
UsesFile(link) == link # <<>> /\ Head(link) = "file:///"

EnvRaw == RStrip(getenv(env, "RAW_BASE_URL", <<>>), {"/"})

EnvPublic == RStrip(getenv(env, "PUBLIC_BASE_URL", <<>>), {"/"})

SameDrive(p) ==
    splitdrive(platform, p)[1]
        = splitdrive(platform, _guess_output_root(platform, env))[1]

\* the RAW base can be derived from PUBLIC_BASE_URL
Derivable == EnvPublic # <<>> /\ Contains(EnvPublic, <<"/", "blob", "/">>)

C3_OutsideRootShowsBasename ==
    XlsxWritten =>
        \A r \in 1..Len(args.rows) :
            LET k == ClickColIdx(args.fieldnames)
                p == args.rows[r][k]
            IN  (k # 0 /\ p # <<>>
                   /\ OutsideRoot(platform, p, _guess_output_root(platform, env)))
                =>  /\ CellAt(r, k).value = basename(platform, p)
                    /\ ~isabs(platform, CellAt(r, k).value)
                    /\ ".." \notin Range(CellAt(r, k).value)

\* C4: with the ledger file missing the call does not raise, whatever the
\* output path: it saves an empty workbook and returns, no setting read.
C4_MissingLedgerNeverRaises ==
    (op = "xlsx" /\ ~args.csv_exists /\ pc # "start") =>
        /\ pc = "done"
        /\ out.saved /\ out.sheet = <<>> /\ ~out.read_env

NonPathColumns(fieldnames) ==
    SelectSeq(fieldnames, LAMBDA n : n \notin Range(clickable_cols))

\* C9: the header row is the ledger's columns without example_path and
\* image_path, then one added link column; every data row has as many
\* cells, and only the cell of the added column carries a hyperlink.
C9_HeaderDropsPathColumns ==
    XlsxWritten =>
        LET kept == NonPathColumns(args.fieldnames)
            header == out.sheet[1]
        IN  /\ Len(header) = Len(kept) + 1
            /\ \A k \in 1..Len(kept) : header[k].value = <<kept[k]>>
            /\ \A r \in 1..Len(args.rows) :
                  /\ Len(out.sheet[r + 1]) = Len(header)
                  /\ \A c \in 1..Len(out.sheet[r + 1]) :
                        CellAt(r, c).hyperlink # <<>> => c = Len(header)

----------------------------------------------------------------------------
(* zip_last_7_days.                                                        *)

\* A folder name: the year, month and day fields of a YYYY-MM-DD name, or
\* other text (junk # ""), which strptime rejects.
DayName(y, m, d) == [y |-> y, m |-> m, d |-> d, junk |-> ""]

TextName(t) == [y |-> 0, m |-> 0, d |-> 0, junk |-> t]

IsLeap(y) == (y % 4 = 0 /\ y % 100 # 0) \/ y % 400 = 0

DaysInMonth(y, m) ==
    IF m = 2 THEN (IF IsLeap(y) THEN 29 ELSE 28)
    ELSE IF m \in {4, 6, 9, 11} THEN 30 ELSE 31

RECURSIVE DaysBeforeMonth(_, _)
DaysBeforeMonth(y, m) ==
    IF m = 1 THEN 0 ELSE DaysBeforeMonth(y, m - 1) + DaysInMonth(y, m - 1)

\* date.toordinal(): days since 0001-01-01, that day being 1
toordinal(y, m, d) ==
    LET py == y - 1
    IN  py * 365 + py \div 4 - py \div 100 + py \div 400 + DaysBeforeMonth(y, m) + d

\* datetime.strptime(day, "%Y-%m-%d") raises ValueError
strptime_raises(name) ==
    \/ name.junk # ""
    \/ name.y \notin 1..9999
    \/ name.m \notin 1..12
    \/ name.d \notin 1..DaysInMonth(name.y, name.m)

\* timedelta(days=7)
WindowDays == 7

SiteNames == <<"gogo.mn", "ikon.mn", "news.mn">>

\* the day folders of one site that are walked
SelectedDays(days, cutoff) ==
    {day \in days :
        /\ ~strptime_raises(day)
        /\ toordinal(day.y, day.m, day.d) >= cutoff}

\* as WalkSites, but the loop over the sites ends at the first missing site
RECURSIVE WalkSitesBreak(_, _, _)
WalkSitesBreak(sites, tree, cutoff) ==
    IF sites = <<>> THEN {}
    ELSE IF ~tree[Head(sites)].isdir THEN {}
    ELSE {<<Head(sites), day>> : day \in SelectedDays(tree[Head(sites)].days, cutoff)}
         \cup WalkSitesBreak(Tail(sites), tree, cutoff)

\* the loop over the sites: the <<site, day>> folders that are walked
RECURSIVE WalkSites(_, _, _)
WalkSites(sites, tree, cutoff) ==
    IF sites = <<>> THEN {}
    ELSE (IF ~tree[Head(sites)].isdir THEN {}
          ELSE {<<Head(sites), day>> :
                    day \in SelectedDays(tree[Head(sites)].days, cutoff)})
         \cup WalkSites(Tail(sites), tree, cutoff)

ZipWalkedBreak(tree, today) ==
    WalkSitesBreak(SiteNames, tree, toordinal(today.y, today.m, today.d) - WindowDays)

\* the folders zip_last_7_days walks
ZipWalked(tree, today) ==
    WalkSites(SiteNames, tree, toordinal(today.y, today.m, today.d) - WindowDays)

\* the files of a day folder, found by os.walk
FilesOf(day) == {"a.png"}

\* the archive names written: site/day/file
ZipEntries(walked) ==
    UNION {{<<w[1], w[2], f>> : f \in FilesOf(w[2])} : w \in walked}

zip_last_7_days ==
    /\ op = "zip" /\ pc = "start"
    /\ IF makedirs_raises(platform, args.out_zip_path)
       THEN /\ pc' = "raised"
            /\ out' = out
       ELSE /\ pc' = "done"
            /\ out' = [written |-> TRUE,
                       walked |-> ZipWalked(args.tree, args.today),
                       entries |-> ZipEntries(ZipWalked(args.tree, args.today))]
    /\ UNCHANGED <<op, platform, env, args>>

(* Inputs of zip_last_7_days. *)

Todays == {DayName(2025, 3, 5)}

\* the names a day folder may have, the call being made on 2025-03-05:
\* 8 and 7 days before, the day itself, the day after, a date that does
\* not exist, a name that is no date
FolderNames(today) ==
    {DayName(2025, 2, 25), DayName(2025, 2, 26), DayName(2025, 3, 5),
     DayName(2025, 3, 6), DayName(2025, 2, 30), TextName("latest")}

SiteDirs(today) ==
    {[isdir |-> FALSE, days |-> {}]}
    \cup {[isdir |-> TRUE, days |-> ds] :
            ds \in {d \in SUBSET FolderNames(today) : Cardinality(d) <= MaxDays}}

ZipPaths(plat) == {<<"week.zip">>, <<"out", Sep(plat), "week.zip">>}

InitZip ==
    /\ op = "zip" /\ pc = "start"
    /\ platform \in {"posix", "nt"}
    /\ env = NoEnv
    /\ \E today \in Todays, zp \in ZipPaths(platform) :
       \E tree \in [Range(SiteNames) -> SiteDirs(today)] :
          args = [today |-> today, out_zip_path |-> zp, tree |-> tree]
    /\ out = [written |-> FALSE, walked |-> {}, entries |-> {}]

NextZip == zip_last_7_days

SpecZip == InitZip /\ [][NextZip]_vars

(* Claims about zip_last_7_days. *)

ZipWritten == op = "zip" /\ pc = "done"

Ord(day) == toordinal(day.y, day.m, day.d)

\* C5: a date-named folder of a configured site is in the archive if and
\* only if its date d has today - 7 <= d <= today.
C5_WindowIsClosed ==
    ZipWritten =>
        \A site \in Range(SiteNames) : \A day \in args.tree[site].days :
            (args.tree[site].isdir /\ ~strptime_raises(day)) =>
                (<<site, day, "a.png">> \in out.entries
                    <=> /\ Ord(args.today) - 7 <= Ord(day)
                        /\ Ord(day) <= Ord(args.today))

\* C6: a folder whose name is no date and a site without a directory are
\* passed over: the call does not raise for them, they add no entry, and
\* the folders of the last 7 days of every other site are archived.
C6_SkipsBadNamesAndMissingSites ==
    (op = "zip" /\ pc # "start" /\ ~makedirs_raises(platform, args.out_zip_path)) =>
        /\ pc = "done"
        /\ \A e \in out.entries :
              /\ args.tree[e[1]].isdir
              /\ e[2].junk = "" /\ e[2].d <= DaysInMonth(e[2].y, e[2].m)
        /\ \A site \in Range(SiteNames) : \A day \in args.tree[site].days :
              (/\ args.tree[site].isdir
               /\ day.junk = "" /\ day.d <= DaysInMonth(day.y, day.m)
               /\ Ord(args.today) - 7 <= Ord(day) /\ Ord(day) <= Ord(args.today))
              => <<site, day, "a.png">> \in out.entries

\* the first site is missing, the second holds a folder that is no date,
\* and folders of the second and the third site are archived all the same
C6_Witness ==
    /\ ZipWritten
    /\ ~args.tree["gogo.mn"].isdir
    /\ TextName("latest") \in args.tree["ikon.mn"].days
    /\ \E e \in out.entries : e[1] = "ikon.mn"
    /\ \E e \in out.entries : e[1] = "news.mn"

----------------------------------------------------------------------------
(* send_email.                                                             *)

\* the strings int() accepts, among those the model uses
NumericStrings == {<<"587">>, <<"465">>}

\* int(s) raises ValueError
int_raises(s) == s \notin NumericStrings

\* os.getenv("SMTP_PORT", "587")
DefaultPort == <<"587">>

\* [x.strip() for x in s.split(",") if x.strip()]
RECURSIVE StripAll(_)
StripAll(pieces) ==
    IF pieces = <<>> THEN <<>>
    ELSE (IF Strip(Head(pieces)) # <<>> THEN <<Strip(Head(pieces))>> ELSE <<>>)
         \o StripAll(Tail(pieces))

MailTo(e) == StripAll(StrSplit(getenv(e, "MAIL_TO", <<>>), <<",">>))

\* mimetypes.guess_type: <<type, encoding>>, "" for None
guess_type(file_path) ==
    LET name == basename("posix", file_path)
    IN  IF name = <<"week.zip">> THEN <<"application/zip", "">>
        ELSE IF name = <<"ledger.csv">> THEN <<"text/csv", "">>
        ELSE IF name = <<"ledger.csv.gz">> THEN <<"text/csv", "gzip">>
        ELSE <<"", "">>

\* open(file_path, "rb") raises for a directory or a file that may not be read
open_raises(fs, file_path) == fs[file_path] = "locked"

\* the attachment _attach_file adds
_attach_file(plat, file_path) ==
    LET g == guess_type(file_path)
        ctype == IF g[1] = "" \/ g[2] # "" THEN "application/octet-stream" ELSE g[1]
    IN  [filename |-> basename(plat, file_path), ctype |-> ctype]

\* as AttachLoop, but the first failure ends the loop
RECURSIVE AttachLoopAbort(_, _, _)
AttachLoopAbort(plat, fs, paths) ==
    IF paths = <<>> THEN <<>>
    ELSE IF fs[Head(paths)] = "missing" THEN AttachLoopAbort(plat, fs, Tail(paths))
    ELSE IF open_raises(fs, Head(paths)) THEN <<>>
    ELSE <<_attach_file(plat, Head(paths))>> \o AttachLoopAbort(plat, fs, Tail(paths))

\* the loop over the attachments: the attachments of the message
RECURSIVE AttachLoop(_, _, _)
AttachLoop(plat, fs, paths) ==
    IF paths = <<>> THEN <<>>
    ELSE IF fs[Head(paths)] = "missing" THEN AttachLoop(plat, fs, Tail(paths))
    ELSE IF open_raises(fs, Head(paths)) THEN AttachLoop(plat, fs, Tail(paths))
    ELSE <<_attach_file(plat, Head(paths))>> \o AttachLoop(plat, fs, Tail(paths))

AttachedAbort(plat, fs, paths) == AttachLoopAbort(plat, fs, paths)

Attached(plat, fs, paths) == AttachLoop(plat, fs, paths)

\* the number of tracebacks printed by the loop
Tracebacks(fs, paths) == Len(SelectSeq(paths, LAMBDA p : open_raises(fs, p)))

\* not (smtp_host and smtp_user and smtp_pass and mail_to)
SmtpEnvMissing(e) ==
    \/ getenv(e, "SMTP_HOST", <<>>) = <<>>
    \/ getenv(e, "SMTP_USER", <<>>) = <<>>
    \/ getenv(e, "SMTP_PASS", <<>>) = <<>>
    \/ MailTo(e) = <<>>

Message(plat, e, a) ==
    [From |-> getenv(e, "MAIL_FROM", getenv(e, "SMTP_USER", <<>>)),
     To |-> MailTo(e),
     Subject |-> a.subject,
     attachments |-> Attached(plat, a.fs, a.attachments)]

send_email ==
    /\ op = "mail" /\ pc = "start"
    /\ IF int_raises(getenv(env, "SMTP_PORT", DefaultPort))
       THEN /\ pc' = "raised"
            /\ out' = out
       ELSE IF SmtpEnvMissing(env)
       THEN /\ pc' = "done"
            /\ out' = [out EXCEPT !.warned = TRUE]
       ELSE /\ pc' = "done"
            /\ out' = [out EXCEPT
                  !.tracebacks = Tracebacks(args.fs, args.attachments),
                  !.smtp = <<<<"SMTP", getenv(env, "SMTP_HOST", <<>>),
                               getenv(env, "SMTP_PORT", DefaultPort)>>,
                             <<"starttls">>,
                             <<"login", getenv(env, "SMTP_USER", <<>>),
                               getenv(env, "SMTP_PASS", <<>>)>>,
                             <<"send_message">>>>,
                  !.sent = <<Message(platform, env, args)>>]
    /\ UNCHANGED <<op, platform, env, args>>

(* Inputs of send_email. *)

AttachPaths == {<<"out", "/", "week.zip">>, <<"out", "/", "ledger.csv">>}

FileKinds == {"file", "missing", "locked"}

InitMail ==
    /\ op = "mail" /\ pc = "start"
    /\ platform = "posix"
    /\ \E host \in {Unset, Val(<<>>), Val(<<"smtp.example">>)},
          port \in {Unset, Val(<<>>), Val(<<"465">>), Val(<<"abc">>)},
          user \in {Unset, Val(<<"bot">>)},
          pass \in {Unset, Val(<<"secret">>)},
          from \in {Unset, Val(<<"Ad Bot">>)},
          to \in {Unset, Val(<<" ", ",", " ">>), Val(<<"a@x">>),
                  Val(<<"a@x", ",", " ", "b@x">>)} :
          env = [NoEnv EXCEPT !["SMTP_HOST"] = host, !["SMTP_PORT"] = port,
                              !["SMTP_USER"] = user, !["SMTP_PASS"] = pass,
                              !["MAIL_FROM"] = from, !["MAIL_TO"] = to]
    /\ \E fs \in [AttachPaths -> FileKinds],
          atts \in SeqsUpTo(AttachPaths, MaxAttach) :
          args = [subject |-> <<"weekly">>, fs |-> fs, attachments |-> atts]
    /\ out = [warned |-> FALSE, tracebacks |-> 0, smtp |-> <<>>, sent |-> <<>>]

NextMail == send_email

SpecMail == InitMail /\ [][NextMail]_vars

(* Claims about send_email. *)

UnsetOrEmpty(name) == ~env[name].set \/ env[name].val = <<>>

\* C7: when one of SMTP_HOST, SMTP_PORT, SMTP_USER, SMTP_PASS, MAIL_TO is
\* unset or empty, send_email opens no SMTP connection, warns and returns
\* without raising.
C7_MissingSettingSendsNothing ==
    (/\ op = "mail" /\ pc # "start"
     /\ \E n \in {"SMTP_HOST", "SMTP_PORT", "SMTP_USER", "SMTP_PASS", "MAIL_TO"} :
           UnsetOrEmpty(n))
    => (pc = "done" /\ out.warned /\ out.smtp = <<>> /\ out.sent = <<>>)

\* every mail setting holds a usable value: a host, a port number, a user,
\* a password and at least one recipient
AllMailSettings ==
    /\ \A n \in {"SMTP_HOST", "SMTP_PORT", "SMTP_USER", "SMTP_PASS", "MAIL_TO"} :
          ~UnsetOrEmpty(n)
    /\ env["SMTP_PORT"].val \in NumericStrings
    /\ \E i \in 1..Len(env["MAIL_TO"].val) : env["MAIL_TO"].val[i] \notin {",", " "}

\* C10: with all mail settings present send_email sends exactly one message,
\* whose attachments are the paths of the list that exist and can be read,
\* in the order of the list: a missing path or a failing one is passed over
\* and the later ones are still attached.
C10_OneMessageWithReadableAttachments ==
    (op = "mail" /\ pc # "start" /\ AllMailSettings) =>
        /\ pc = "done"
        /\ Len(out.sent) = 1
        /\ LET good == SelectSeq(args.attachments, LAMBDA p : args.fs[p] = "file")
               got == out.sent[1].attachments
           IN  /\ Len(got) = Len(good)
               /\ \A i \in 1..Len(good) : got[i].filename = <<Last(good[i])>>

\* a path that cannot be read comes first, a readable one after it, and the
\* message was sent with the readable one attached
C10_Witness ==
    /\ op = "mail" /\ pc = "done" /\ AllMailSettings
    /\ Len(args.attachments) >= 2
    /\ args.fs[args.attachments[1]] = "locked"
    /\ args.fs[args.attachments[2]] = "file"
    /\ Len(out.sent) = 1 /\ Len(out.sent[1].attachments) = 1
    /\ out.tracebacks = 1

----------------------------------------------------------------------------
(* git_commit_and_push.                                                    *)

\* subprocess.run(cmd, cwd=repo_dir, check=False) raises CalledProcessError
\* for no exit status
run_raises_checked(rc) == rc # 0

run_raises(rc) == FALSE

Remote(e) == getenv(e, "GIT_REMOTE_NAME", <<"origin">>)

Branch(e) == getenv(e, "GIT_BRANCH", <<"main">>)

ExitCodes == {0, 1, 128}

\* one run(...) of the function: the command is issued, git ends with rc
RunStep(from, to, cmd, rc) ==
    /\ op = "git" /\ pc = from
    /\ out' = [cmds |-> Append(out.cmds, cmd), exits |-> Append(out.exits, rc)]
    /\ pc' = IF run_raises(rc) THEN "raised" ELSE to
    /\ UNCHANGED <<op, platform, env, args>>

git_add ==
    \E rc \in ExitCodes :
        RunStep("start", "added", <<<<"git">>, <<"add">>, <<"-A">>>>, rc)

\* git commit ends with 1 when nothing is staged
git_commit ==
    \E rc \in ExitCodes :
        /\ pc = "added"
        /\ (~args.dirty \/ out.exits[1] # 0) => rc = 1
        /\ RunStep("added", "committed",
                   <<<<"git">>, <<"commit">>, <<"-m">>, args.message>>, rc)

git_push ==
    \E rc \in ExitCodes :
        RunStep("committed", "pushed",
                <<<<"git">>, <<"push">>, Remote(env), Branch(env)>>, rc)

git_return ==
    /\ op = "git" /\ pc = "pushed"
    /\ pc' = "done"
    /\ UNCHANGED <<op, platform, env, args, out>>

InitGit ==
    /\ op = "git" /\ pc = "start"
    /\ platform \in {"posix", "nt"}
    /\ \E remote \in {Unset, Val(<<>>), Val(<<"upstream">>)},
          branch \in {Unset, Val(<<"dev">>)} :
          env = [NoEnv EXCEPT !["GIT_REMOTE_NAME"] = remote, !["GIT_BRANCH"] = branch]
    /\ \E dirty \in BOOLEAN, message \in {<<"daily run">>, <<>>} :
          args = [dirty |-> dirty, message |-> message]
    /\ out = [cmds |-> <<>>, exits |-> <<>>]

NextGit == git_add \/ git_commit \/ git_push \/ git_return

SpecGit == InitGit /\ [][NextGit]_vars

(* Claims about git_commit_and_push. *)

ExpectedCmds ==
    <<<<<<"git">>, <<"add">>, <<"-A">>>>,
      <<<<"git">>, <<"commit">>, <<"-m">>, args.message>>,
      <<<<"git">>, <<"push">>,
        IF env["GIT_REMOTE_NAME"].set THEN env["GIT_REMOTE_NAME"].val ELSE <<"origin">>,
        IF env["GIT_BRANCH"].set THEN env["GIT_BRANCH"].val ELSE <<"main">>>>>>

CmdsIssuedAt(p) ==
    IF p = "start" THEN 0
    ELSE IF p = "added" THEN 1
    ELSE IF p = "committed" THEN 2
    ELSE 3

\* C8: add, commit and push are issued once each, in that order, push to
\* the configured remote and branch (origin and main when not configured);
\* an exit status that is not 0 stops nothing, and the function returns.
C8_AddCommitPushInOrder ==
    op = "git" =>
        /\ pc \in {"start", "added", "committed", "pushed", "done"}
        /\ out.cmds = SubSeq(ExpectedCmds, 1, CmdsIssuedAt(pc))
        /\ pc # "done" => ENABLED NextGit

\* the call has returned after add and commit both failed, nothing being
\* there to commit, and push went to the default remote
C8_Witness ==
    /\ op = "git" /\ pc = "done"
    /\ ~args.dirty /\ out.exits[1] # 0 /\ out.exits[2] = 1
    /\ Len(out.cmds) = 3
    /\ ~env["GIT_REMOTE_NAME"].set
    /\ out.cmds[3][3] = <<"origin">>

====
